---- MODULE Spec2Model ----
(***************************************************************************)
(* Treasure-hunt handheld game: the rotary quadrature decoder              *)
(* (src/rotary_encoder.py) and the game controller (src/src/code.py).      *)
(*                                                                         *)
(* Time.  The program reads time.monotonic() and keeps timestamps which it *)
(* only ever subtracts from a later reading and compares with a constant.  *)
(* The model keeps, for each timestamp t, the elapsed time now - t in      *)
(* milliseconds, saturating at the largest constant it is compared with.   *)
(* Storing "t = now" is "elapsed = 0"; a Tick action lets the clock        *)
(* advance.  Pauses (time.sleep, buzzer tones) are not forced: the clock   *)
(* may or may not advance between two steps.                               *)
(*                                                                         *)
(* Scopes of the game specification.  A play-through is explored in two    *)
(* slices of the player's behaviour, chosen in the initial state:          *)
(*   "broad": the first level, with the clock free (every countdown can    *)
(*            run out), over any number of play-throughs;                  *)
(*   "deep":  one play-through over all levels and the final choice, where *)
(*            in a level the clock advances once between two digs the      *)
(*            level needs, plus DeepSlack spare steps per play-through,    *)
(*            then, when that was a hard game that reached the final       *)
(*            level, the menu again up to the start of a second game.      *)
(* In the game specification the encoder is its renc() result and the      *)
(* separate button stays released; both objects have specifications of     *)
(* their own.                                                              *)
(***************************************************************************)
EXTENDS Integers, Sequences, FiniteSets, TLC

VARIABLES
    \* ---- RotaryEncoder object (rotary_encoder.py) ----
    pinA, pinB,          \* levels of the two encoder lines (hardware)
    last_a, last_b,      \* _last_a, _last_b
    sinceChange,         \* now*1000 - _last_change_time, ms, saturating
    position_raw,        \* _position_raw
    position,            \* _position
    delta_accum,         \* _delta_accum
    debounce_ms,         \* _debounce_ms
    pulses_per_detent,   \* _pulses_per_detent
    encOp,               \* the last call made on the encoder and what it saw
    encRet,              \* the value that call returned
    deltaReturned,       \* sum of the values get_delta() returned since creation/reset
    resetPos,            \* detent position at creation / last reset
    \* ---- Game: buttons (code.py cbtn) ----
    ebtnPin, btnPin,     \* levels of the two button lines (hardware, active low)
    ebl, bl,             \* last observed level of each button
    lbtAge,              \* now - lbt, ms, saturating at BTN_DEBOUNCE_MS
    btnOp,               \* what the last cbtn() poll did
    presses,             \* number of polls that reported a press
    falls,               \* number of physical presses (a button line going low)
    sinceFall,           \* time since the latest physical press, ms, saturating
    fallGap,             \* time between the latest two physical presses, ms, saturating
    \* ---- Game: controller (code.py) ----
    pc,                  \* where run() is: "welcome", "dispatch" (the while loop of
                         \* run), or inside "menu", "play", "lv10", "win", "over"
    st, df, lv, hp, sc,  \* self.st, self.df, self.lv, self.hp, self.sc
    shake_event_available, bomb_disarm_active,
    shakeAge,            \* now - shake_start_time, ms, saturating
    grd, rev, pos, fnd,  \* self.grd, self.rev, self.pos, self.fnd
    stmAge,              \* now - stm, ms, saturating
    tlm, fch, fhp,       \* self.tlm, self.fch, self.fhp
    leAge,               \* now - le (local of menu/play/lv10), ms, saturating
    cor,                 \* local cor of lv10(): the correct chest
    timeouts,            \* level time-outs since start()
    played,              \* games started since boot (scope "broad": whether any)
    waited,              \* scope "deep": spare clock steps spent since start()
    scope,               \* the slice of player behaviour explored: "broad" or "deep"
    ev,                  \* what the last controller step did
    smp,                 \* the motion present at the last step, if a disarm iteration
    armedGen,            \* disarms entered since the grid was generated
    armedLv,             \* disarms entered since play() was entered for the level
    \* ---- Game: ilvl() and shuf() taken step by step (level specification) ----
    ps,                  \* local ps of ilvl(), the list shuf() works on
    si,                  \* loop index i of shuf()
    swaps                \* choices j /= i made by the shuffle so far

encVars == <<pinA, pinB, last_a, last_b, sinceChange, position_raw, position,
             delta_accum, debounce_ms, pulses_per_detent, encOp, encRet,
             deltaReturned, resetPos>>
btnVars == <<ebtnPin, btnPin, ebl, bl, lbtAge, btnOp, presses>>
fallVars == <<falls, sinceFall, fallGap>>
gameVars == <<pc, st, df, lv, hp, sc, shake_event_available, bomb_disarm_active,
              shakeAge, grd, rev, pos, fnd, stmAge, tlm, fch, fhp, leAge, cor,
              timeouts, played, waited, scope, ev, smp, armedGen, armedLv>>
lvlVars == <<ps, si, swaps>>
vars == <<encVars, btnVars, fallVars, gameVars, lvlVars>>

Min(a, b) == IF a <= b THEN a ELSE b
Max(a, b) == IF a >= b THEN a ELSE b
Abs(a) == IF a >= 0 THEN a ELSE -a

\* elapsed time after d more milliseconds, saturating at cap
Elapse(age, d, cap) == Min(age + d, cap)

(***************************************************************************)
(* Bounds of the model                                                     *)
(***************************************************************************)
MaxRaw == 4            \* |raw pulse count| explored
MaxDebounce == 2       \* debounce_ms arguments explored: -1..MaxDebounce
MaxPpd == 3            \* pulses_per_detent arguments explored: 0..MaxPpd
MaxDetent == 1         \* reset(to_detent) arguments explored: -MaxDetent..MaxDetent
EncTickMs == 1         \* clock step of the encoder specification, ms
MaxPresses == 3        \* accepted presses counted in the button specification
MaxFalls == 2          \* physical presses made in the button specification
BtnTickMs == 100       \* clock step of the button specification, ms
GameTickMs == 3000     \* clock step of the game specification, ms
MaxSeed == 1           \* seeds of the random stream explored: 0..MaxSeed
MaxTimeouts == 1       \* level time-outs explored in one play-through
MenuTickMs == 50       \* clock step of the menu specification, ms
MaxSwaps == 1          \* level specification: shuffle choices j /= i in one shuffle
DeepSlack == 0         \* scope "deep": spare clock steps of a play-through

(***************************************************************************)
(* RotaryEncoder                                                           *)
(***************************************************************************)
\* C-style division, truncating toward zero
TruncDiv(a, b) == IF a >= 0 THEN a \div b ELSE -((-a) \div b)

\* Python's a // b for b >= 1: floor division
PyFloorDiv(a, b) == a \div b

EncHorizon == MaxDebounce

\* __init__: arguments p = pulses_per_detent, d = debounce_ms
EncInit ==
    /\ pinA \in BOOLEAN /\ pinB \in BOOLEAN
    /\ \E p \in 0..MaxPpd : pulses_per_detent = Max(1, p)
    /\ \E d \in -1..MaxDebounce : debounce_ms = Max(0, d)
    /\ last_a = pinA /\ last_b = pinB
    /\ sinceChange = 0
    /\ position_raw = 0 /\ position = 0 /\ delta_accum = 0
    /\ encOp = "init" /\ encRet = 0
    /\ deltaReturned = 0 /\ resetPos = 0

\* the direction taken from B alone, not reversed on a rising edge
EdgeStepOneTable(a, b) == IF b THEN 1 ELSE -1

\* the edge table of update(): a, b are the sampled levels, A has changed
EdgeStep(a, b) ==
    IF ~a THEN (IF b THEN 1 ELSE -1)
          ELSE (IF b THEN -1 ELSE 1)

\* a changed level of A taken without the debounce test
EncAcceptedNoDebounce(a) == a /= last_a

\* update(), lines 53 and 59: A changed and the debounce interval has elapsed
EncAccepted(a) == a /= last_a /\ sinceChange >= debounce_ms

\* an accumulated delta that drops the new detent change
AccumDeltaDropped(delta) == delta_accum

\* update(), line 93: self._delta_accum += delta
AccumDelta(delta) == delta_accum + delta

\* update(): returns True (encRet = 1) iff the detent position changed
EncUpdate ==
    LET a == pinA
        b == pinB
        accepted == EncAccepted(a)
        raw2 == IF accepted THEN position_raw + EdgeStep(a, b) ELSE position_raw
        new_pos == PyFloorDiv(raw2, pulses_per_detent)
        changed == accepted /\ new_pos /= position
    IN  /\ Abs(raw2) <= MaxRaw
        /\ position_raw' = raw2
        /\ sinceChange' = IF accepted THEN 0 ELSE sinceChange
        /\ position' = IF changed THEN new_pos ELSE position
        /\ delta_accum' = IF changed THEN AccumDelta(new_pos - position)
                                     ELSE delta_accum
        /\ last_a' = a /\ last_b' = b
        /\ encOp' = IF a = last_a THEN "update_same"
                    ELSE IF accepted THEN "update_accepted" ELSE "update_rejected"
        /\ encRet' = IF changed THEN 1 ELSE 0
        /\ UNCHANGED <<pinA, pinB, debounce_ms, pulses_per_detent,
                       deltaReturned, resetPos>>

\* get_delta() leaving the delta it has read
DeltaAfterReadKept(acc) == acc

\* get_delta(): the accumulated delta after acc has been read
DeltaAfterRead(acc) == 0

\* get_delta(): read and clear
EncGetDelta ==
    /\ encRet' = delta_accum
    /\ delta_accum' = DeltaAfterRead(delta_accum)
    /\ deltaReturned' = deltaReturned + delta_accum
    /\ encOp' = "get_delta"
    /\ UNCHANGED <<pinA, pinB, last_a, last_b, sinceChange, position_raw,
                   position, debounce_ms, pulses_per_detent, resetPos>>

\* reset(): the detent position becomes p, the raw count p * pulses_per_detent
EncResetTo(p) ==
    /\ Abs(p * pulses_per_detent) <= MaxRaw
    /\ position' = p
    /\ position_raw' = p * pulses_per_detent
    /\ delta_accum' = 0
    /\ deltaReturned' = 0
    /\ resetPos' = p
    /\ encOp' = "reset" /\ encRet' = 0
    /\ UNCHANGED <<pinA, pinB, last_a, last_b, sinceChange,
                   debounce_ms, pulses_per_detent>>

\* reset(to_detent=None) and reset(to_detent=t)
EncReset ==
    \/ EncResetTo(0)
    \/ \E t \in -MaxDetent..MaxDetent : EncResetTo(t)

\* the hardware lines take new levels
EncPins ==
    /\ \E a \in BOOLEAN, b \in BOOLEAN :
         /\ <<a, b>> /= <<pinA, pinB>>
         /\ pinA' = a /\ pinB' = b
    /\ UNCHANGED <<last_a, last_b, sinceChange, position_raw, position,
                   delta_accum, debounce_ms, pulses_per_detent, encOp, encRet,
                   deltaReturned, resetPos>>

\* the clock advances
EncTick ==
    /\ sinceChange < EncHorizon
    /\ sinceChange' = Elapse(sinceChange, EncTickMs, EncHorizon)
    /\ UNCHANGED <<pinA, pinB, last_a, last_b, position_raw, position,
                   delta_accum, debounce_ms, pulses_per_detent, encOp, encRet,
                   deltaReturned, resetPos>>

(***************************************************************************)
(* Game.cbtn                                                               *)
(***************************************************************************)
BTN_DEBOUNCE_MS == 200

\* a press detected from the current level alone
BtnEdgeLevel(last, cur) == ~cur

\* cbtn(), lines 625 and 631: stored level high, current level low
BtnEdge(last, cur) == last /\ ~cur

\* cbtn(), line 618: the poll falls inside the debounce window
BtnDebounced == lbtAge < BTN_DEBOUNCE_MS

\* the value cbtn() returns when it samples the levels e (encoder button)
\* and b (separate button)
CbtnPressed(e, b) ==
    /\ ~BtnDebounced
    /\ (BtnEdge(ebl, e) \/ BtnEdge(bl, b))

\* cbtn(): its effect on the Game object when it samples the levels e and b
Cbtn(e, b) ==
    IF BtnDebounced
    THEN UNCHANGED <<ebl, bl, lbtAge>>
    ELSE /\ ebl' = e
         /\ bl' = b
         /\ lbtAge' = IF CbtnPressed(e, b) THEN 0 ELSE lbtAge

\* Game.__init__, lines 493, 499, 510: both buttons released; the first poll
\* comes seconds after boot
BtnInit ==
    /\ ebtnPin = TRUE /\ btnPin = TRUE
    /\ ebl = TRUE /\ bl = TRUE
    /\ lbtAge = BTN_DEBOUNCE_MS
    /\ btnOp = "none"
    /\ presses = 0
    /\ falls = 0 /\ sinceFall = BTN_DEBOUNCE_MS /\ fallGap = BTN_DEBOUNCE_MS

\* one poll of the buttons
BtnPoll ==
    /\ presses < MaxPresses
    /\ Cbtn(ebtnPin, btnPin)
    /\ presses' = IF CbtnPressed(ebtnPin, btnPin) THEN presses + 1 ELSE presses
    /\ btnOp' = IF BtnDebounced THEN "debounced"
                ELSE IF CbtnPressed(ebtnPin, btnPin) THEN "pressed" ELSE "no_press"
    /\ UNCHANGED <<ebtnPin, btnPin, fallVars>>

\* the player presses or releases buttons; a line going low is a physical press
BtnPins ==
    /\ \E e \in BOOLEAN, b \in BOOLEAN :
         LET fell == (ebtnPin /\ ~e) \/ (btnPin /\ ~b)
         IN  /\ <<e, b>> /= <<ebtnPin, btnPin>>
             /\ fell => falls < MaxFalls
             /\ ebtnPin' = e /\ btnPin' = b
             /\ falls' = IF fell THEN falls + 1 ELSE falls
             /\ fallGap' = IF fell THEN sinceFall ELSE fallGap
             /\ sinceFall' = IF fell THEN 0 ELSE sinceFall
    /\ UNCHANGED <<ebl, bl, lbtAge, btnOp, presses>>

\* the clock advances
BtnTick ==
    /\ lbtAge < BTN_DEBOUNCE_MS \/ sinceFall < BTN_DEBOUNCE_MS
    /\ lbtAge' = Elapse(lbtAge, BtnTickMs, BTN_DEBOUNCE_MS)
    /\ sinceFall' = Elapse(sinceFall, BtnTickMs, BTN_DEBOUNCE_MS)
    /\ UNCHANGED <<ebtnPin, btnPin, ebl, bl, btnOp, presses, falls, fallGap>>

BtnIdle ==
    /\ ebtnPin = TRUE /\ btnPin = TRUE /\ ebl = TRUE /\ bl = TRUE
    /\ lbtAge = BTN_DEBOUNCE_MS /\ btnOp = "none" /\ presses = 0
    /\ falls = 0 /\ sinceFall = BTN_DEBOUNCE_MS /\ fallGap = BTN_DEBOUNCE_MS

EncIdle ==
    /\ pinA = TRUE /\ pinB = TRUE /\ last_a = TRUE /\ last_b = TRUE
    /\ sinceChange = 0 /\ position_raw = 0 /\ position = 0 /\ delta_accum = 0
    /\ debounce_ms = 1 /\ pulses_per_detent = 2
    /\ encOp = "init" /\ encRet = 0 /\ deltaReturned = 0 /\ resetPos = 0

(***************************************************************************)
(* Game: tables                                                            *)
(***************************************************************************)
\* self.cfg, indexed by df + 1
CFG == << [n |-> "EASY", hp |-> 6, t |-> 60, h10 |-> 2, t10 |-> 30],
          [n |-> "MED",  hp |-> 4, t |-> 30, h10 |-> 2, t10 |-> 15],
          [n |-> "HARD", hp |-> 2, t |-> 15, h10 |-> 1, t10 |-> 15] >>

Cfg(d) == CFG[d + 1]

\* self.lvl with level 5 asking for more treasures than it hides
LVLNeedsMore ==
       << <<2, 2, 2, 1, 1>>, <<2, 3, 3, 2, 2>>, <<2, 3, 3, 2, 2>>,
          <<3, 3, 4, 3, 2>>, <<3, 3, 4, 3, 5>>, <<3, 4, 5, 4, 3>>,
          <<3, 4, 5, 5, 3>>, <<4, 4, 6, 5, 4>>, <<4, 4, 6, 6, 4>> >>

\* self.lvl: (rows, columns, treasures, bombs, treasures needed)
LVL == << <<2, 2, 2, 1, 1>>, <<2, 3, 3, 2, 2>>, <<2, 3, 3, 2, 2>>,
          <<3, 3, 4, 3, 2>>, <<3, 3, 4, 3, 3>>, <<3, 4, 5, 4, 3>>,
          <<3, 4, 5, 5, 3>>, <<4, 4, 6, 5, 4>>, <<4, 4, 6, 6, 4>> >>

Needed(l) == LVL[l][5]

LAST_LEVEL == 9
SHAKE_DURATION_MS == 3000
SHAKE_THRESHOLD_X10 == 20
GRAVITY_X10 == 98
MENU_DEBOUNCE_MS == 150
PLAY_DEBOUNCE_MS == 80
TREASURE_SCORE == 50
DISARM_SCORE == 100
CLEAR_BASE == 100
CLEAR_PER_SECOND == 2
FINAL_SCORE == 500

\* the values renc() returns: the sign of the encoder's get_delta()
RencValues == {-1, 0, 1}

\* sensor reads: <<ok, magnitude in 0.1 m/s^2>>; ok = FALSE is a failed read
ShakeSamples ==
    {<<FALSE, 0>>} \cup
    ({TRUE} \X {GRAVITY_X10, GRAVITY_X10 + SHAKE_THRESHOLD_X10,
                GRAVITY_X10 + SHAKE_THRESHOLD_X10 + 1})

\* pin levels <<encoder button, separate button>> sampled by a poll of the game
ButtonLevels == BOOLEAN \X {TRUE}

\* no sensor read
NoSample == <<FALSE, 0>>

CheckShakeNever(m) == FALSE

\* check_shake() when the sensor reads m
CheckShake(m) == m[1] /\ m[2] > GRAVITY_X10 + SHAKE_THRESHOLD_X10

\* the horizon of an elapsed time compared with "> limit"
LeHorizon == MENU_DEBOUNCE_MS + 1

\* the longest countdown
StmHorizon == 1000 * Cfg(0).t

(***************************************************************************)
(* Game: level generation                                                  *)
(***************************************************************************)
\* random.randint(0, i), as drawn by the random stream of the given seed
RandInt(seed, i) == (seed * i) % (i + 1)

\* l[i] = l[j] without the exchange
SwapCopy(l, i, j) == [l EXCEPT ![i + 1] = l[j + 1]]

\* l with the elements at (0-based) indices i and j swapped
Swap(l, i, j) == [l EXCEPT ![i + 1] = l[j + 1], ![j + 1] = l[i + 1]]

\* shuf(): Fisher-Yates, for i from len-1 down to 1
RECURSIVE ShufFrom(_, _, _)
ShufFrom(l, i, seed) ==
    IF i < 1 THEN l
    ELSE ShufFrom(Swap(l, i, RandInt(seed, i)), i - 1, seed)

Shuf(l, seed) == ShufFrom(l, Len(l) - 1, seed)

\* ps = [(i, j) for i in range(r) for j in range(co)]
Positions(r, co) == [k \in 1..(r * co) |-> <<(k - 1) \div co, (k - 1) % co>>]

Cells(r, co) == (0..(r - 1)) \X (0..(co - 1))

\* the grid ilvl() fills for level l from the shuffled list sh: the bombs
\* are written after the treasures
PlaceGrid(l, sh) ==
    LET r == LVL[l][1]
        co == LVL[l][2]
        tr == LVL[l][3]
        bm == LVL[l][4]
    IN  [p \in Cells(r, co) |->
           IF \E i \in (tr + 1)..(tr + bm) : sh[i] = p THEN "B"
           ELSE IF \E i \in 1..tr : sh[i] = p THEN "T"
           ELSE " "]

\* the grid ilvl() builds for level l
NewGrid(l, seed) == PlaceGrid(l, Shuf(Positions(LVL[l][1], LVL[l][2]), seed))

GridRows(g) == Cardinality({p[1] : p \in DOMAIN g})
GridCols(g) == Cardinality({p[2] : p \in DOMAIN g})

\* ilvl() leaving the health as it finds it
IlvlHpKept == hp

\* the health ilvl() leaves
IlvlHp == Cfg(df).hp

\* ilvl() leaving the cursor where it was
IlvlGridCursorKept(g) ==
    /\ hp' = IlvlHp
    /\ tlm' = Cfg(df).t
    /\ shake_event_available' = (df = 0)
    /\ grd' = g
    /\ rev' = [p \in DOMAIN grd' |-> FALSE]
    /\ pos' = pos
    /\ fnd' = 0
    /\ stmAge' = 0
    /\ bomb_disarm_active' = FALSE

\* ilvl() with grid g
IlvlGrid(g) ==
    /\ hp' = IlvlHp
    /\ tlm' = Cfg(df).t
    /\ shake_event_available' = (df = 0)
    /\ grd' = g
    /\ rev' = [p \in DOMAIN grd' |-> FALSE]
    /\ pos' = <<0, 0>>
    /\ fnd' = 0
    /\ stmAge' = 0
    /\ bomb_disarm_active' = FALSE

\* ilvl()
Ilvl(seed) == IlvlGrid(NewGrid(lv, seed))

\* move() leaving the last row downwards, and the first upwards, unwrapped
MoveFromNoRowWrap(p, d) ==
    LET cols == GridCols(grd)
    IN  IF d > 0
        THEN IF p[2] + 1 >= cols THEN <<p[1] + 1, 0>> ELSE <<p[1], p[2] + 1>>
        ELSE IF p[2] - 1 < 0 THEN <<p[1] - 1, cols - 1>> ELSE <<p[1], p[2] - 1>>

\* the cursor move(d) leaves when it finds the cursor at p
MoveFrom(p, d) ==
    LET rows == GridRows(grd)
        cols == GridCols(grd)
        r == p[1]
        c == p[2]
    IN  IF d > 0
        THEN IF c + 1 >= cols THEN <<(r + 1) % rows, 0>> ELSE <<r, c + 1>>
        ELSE IF c - 1 < 0 THEN <<(r - 1) % rows, cols - 1>> ELSE <<r, c - 1>>

\* move(d)
Move(d) == MoveFrom(pos, d)

(***************************************************************************)
(* Game: the controller                                                    *)
(***************************************************************************)
\* Game.__init__, and welcome() up to its wait loop (lines 785-790 store the
\* levels of the buttons)
GameInit ==
    /\ pc = "welcome"
    /\ st = "MENU" /\ df = 0 /\ lv = 1 /\ hp = 6 /\ sc = 0
    /\ shake_event_available = FALSE /\ bomb_disarm_active = FALSE
    /\ shakeAge = SHAKE_DURATION_MS
    /\ grd = << >> /\ rev = << >> /\ pos = <<0, 0>> /\ fnd = 0
    /\ stmAge = StmHorizon /\ tlm = 60 /\ fch = 0 /\ fhp = 2
    /\ leAge = LeHorizon /\ cor = 0
    /\ timeouts = 0
    /\ played = 0
    /\ waited = 0
    /\ scope \in {"broad", "deep"}
    /\ ev = "init"
    /\ smp = NoSample /\ armedGen = 0 /\ armedLv = 0
    /\ ps = << >> /\ si = 0 /\ swaps = 0

\* welcome(), lines 794-805: wait for a press, then st = 'MENU'
WelcomeWait ==
    /\ pc = "welcome"
    /\ \E k \in ButtonLevels :
         /\ Cbtn(k[1], k[2])
         /\ IF CbtnPressed(k[1], k[2])
            THEN pc' = "dispatch" /\ st' = "MENU" /\ ev' = "welcome_done"
            ELSE UNCHANGED <<pc, st, ev>>
    /\ UNCHANGED <<df, lv, hp, sc, shake_event_available, bomb_disarm_active,
                   shakeAge, grd, rev, pos, fnd, stmAge, tlm, fch, fhp, leAge,
                   cor, timeouts, played, waited, scope>>

\* the level a new game starts at
StartLevel == 1

\* run() calls menu(): le = 0
MenuEnter ==
    /\ pc = "dispatch" /\ st = "MENU"
    /\ scope = "deep" => (played = 0 \/ (lv = 10 /\ df = 2))
    /\ pc' = "menu"
    /\ leAge' = LeHorizon
    /\ ev' = "menu_enter"
    /\ UNCHANGED <<st, df, lv, hp, sc, shake_event_available, bomb_disarm_active,
                   shakeAge, grd, rev, pos, fnd, stmAge, tlm, fch, fhp, cor, timeouts, played, waited, scope>>
    /\ UNCHANGED <<ebl, bl, lbtAge>>

\* start() leaving the score of the previous play-through
StartFieldsScoreKept(d) ==
    [hp |-> Cfg(d).hp, tlm |-> Cfg(d).t, lv |-> StartLevel, sc |-> sc]

\* the session fields start() assigns for difficulty index d
StartFields(d) ==
    [hp |-> Cfg(d).hp, tlm |-> Cfg(d).t, lv |-> StartLevel, sc |-> 0]

\* menu() accepting a turn already at the limit of its debounce interval
MenuTurnAtLimit(d) == d /= 0 /\ leAge >= MENU_DEBOUNCE_MS

\* menu(), line 822: the turn d is taken
MenuTurn(d) == d /= 0 /\ leAge > MENU_DEBOUNCE_MS

\* one iteration of the loop of menu() with renc() returning d; a press
\* runs start()
MenuIterD(d) ==
    /\ pc = "menu"
    /\ \E k \in ButtonLevels :
         LET turn == MenuTurn(d)
         IN  /\ df' = IF turn THEN (df + d) % 3 ELSE df
             /\ leAge' = IF turn THEN 0 ELSE leAge
             /\ Cbtn(k[1], k[2])
             /\ IF CbtnPressed(k[1], k[2])
                THEN /\ played' = IF scope = "deep" THEN played + 1 ELSE 1
                     /\ waited' = 0
                     /\ hp' = StartFields(df').hp
                     /\ tlm' = StartFields(df').tlm
                     /\ lv' = StartFields(df').lv
                     /\ sc' = StartFields(df').sc
                     /\ timeouts' = 0
                     /\ st' = "PLAY"
                     /\ pc' = "dispatch"
                     /\ ev' = "start"
                ELSE /\ UNCHANGED <<hp, tlm, lv, sc, st, pc, timeouts, played, waited>>
                     /\ ev' = IF turn THEN "menu_turn"
                              ELSE IF d /= 0 THEN "menu_held" ELSE "menu_idle"
    /\ UNCHANGED <<shake_event_available, bomb_disarm_active, shakeAge, grd, rev,
                   pos, fnd, stmAge, fch, fhp, cor, scope>>

MenuIter == \E d \in RencValues : MenuIterD(d)

\* the clock advances by one step of the menu specification
MenuTick ==
    /\ lbtAge' = Elapse(lbtAge, MenuTickMs, BTN_DEBOUNCE_MS)
    /\ leAge' = Elapse(leAge, MenuTickMs, LeHorizon)
    /\ ev' = "tick"
    /\ UNCHANGED <<pc, st, df, lv, hp, sc, shake_event_available,
                   bomb_disarm_active, shakeAge, grd, rev, pos, fnd, stmAge,
                   tlm, fch, fhp, cor, timeouts, played, waited, scope>>
    /\ UNCHANGED <<ebl, bl>>

\* run() calls play(): ilvl(), le = 0
PlayEnter ==
    /\ pc = "dispatch" /\ st = "PLAY"
    /\ scope = "broad" => lv = StartLevel
    /\ scope = "deep" => played < 2
    /\ \E seed \in 0..MaxSeed : Ilvl(seed)
    /\ pc' = "play"
    /\ leAge' = LeHorizon
    /\ ev' = "play_enter"
    /\ UNCHANGED <<st, df, lv, sc, shakeAge, fch, fhp, cor, timeouts, played, waited, scope>>
    /\ UNCHANGED <<ebl, bl, lbtAge>>

\* remaining whole seconds of a countdown of limit seconds
Remaining(limit) == Max(0, limit - (stmAge \div 1000))

DisarmOwnsNothing == FALSE

\* "if self.bomb_disarm_active": the iteration is the disarm's (line 961)
DisarmOwnsIteration == bomb_disarm_active

DisarmOutcomeShakeFirst(m) ==
    IF CheckShake(m) THEN "disarmed"
    ELSE IF shakeAge >= SHAKE_DURATION_MS THEN "disarm_failed"
    ELSE "disarm_wait"

\* the branch a disarm iteration takes when the motion is m (lines 973-1020)
DisarmOutcome(m) ==
    IF shakeAge >= SHAKE_DURATION_MS THEN "disarm_failed"
    ELSE IF CheckShake(m) THEN "disarmed"
    ELSE "disarm_wait"

DisarmFailHpKept(h) == h

\* "self.hp -= 1" of a failed disarm (line 980)
DisarmFailHp(h) == h - 1

\* a failed disarm that forgets to clear the flag
DisarmStaysAfterFailure(out) == out /= "disarmed"

\* bomb_disarm_active after a disarm iteration that took branch out: lines
\* 975 and 1000 clear it
DisarmStays(out) == out = "disarm_wait"

\* an iteration of play() while a disarm is active (lines 961-1023)
PlayDisarmIter ==
    /\ pc = "play" /\ DisarmOwnsIteration
    /\ \E m \in ShakeSamples :
         LET out == DisarmOutcome(m)
         IN  /\ smp' = m
             /\ ev' = out
             /\ bomb_disarm_active' = DisarmStays(out)
             /\ hp' = IF out = "disarm_failed" THEN DisarmFailHp(hp) ELSE hp
             /\ sc' = IF out = "disarmed" THEN sc + DISARM_SCORE ELSE sc
             /\ IF out = "disarm_failed" /\ hp' <= 0
                THEN st' = "OVER" /\ pc' = "dispatch"
                ELSE UNCHANGED <<st, pc>>
    /\ UNCHANGED <<df, lv, shake_event_available, shakeAge, grd, rev, pos, fnd,
                   stmAge, tlm, fch, fhp, leAge, cor, timeouts, played, waited, scope>>
    /\ UNCHANGED <<ebl, bl, lbtAge>>

TimeoutOverNever(h) == h < 0

\* "if self.hp <= 0" after a time-out took a health point (line 1043)
TimeoutOver(h) == h <= 0

\* an iteration of play() that finds the time up (lines 1037-1050)
\* a time-out taking two points
TimeoutHpTwo(h) == h - 2

\* play(), line 1040: "self.hp -= 1" of a time-out
TimeoutHp(h) == h - 1

\* a time-out test that lets the iteration at 0 seconds play on
PlayTimeUpBelowZero(rm) == rm < 0

\* play(), line 1037: "if rm <= 0"
PlayTimeUp(rm) == rm <= 0

\* counted: the restarts are counted up to MaxTimeouts
PlayTimeoutIterOf(counted) ==
    /\ pc = "play" /\ ~DisarmOwnsIteration
    /\ PlayTimeUp(Remaining(tlm))
    /\ IF TimeoutOver(TimeoutHp(hp))
       THEN /\ hp' = TimeoutHp(hp)
            /\ st' = "OVER" /\ pc' = "dispatch"
            /\ ev' = "timeout_over"
            /\ UNCHANGED <<tlm, shake_event_available, grd, rev, pos, fnd, stmAge,
                           bomb_disarm_active, timeouts>>
       ELSE /\ counted => timeouts < MaxTimeouts
            /\ timeouts' = IF counted THEN timeouts + 1 ELSE timeouts
            /\ \E seed \in 0..MaxSeed : Ilvl(seed)
            /\ ev' = "timeout_restart"
            /\ UNCHANGED <<st, pc>>
    /\ UNCHANGED <<df, lv, sc, shakeAge, fch, fhp, leAge, cor, played, waited, scope>>
    /\ UNCHANGED <<ebl, bl, lbtAge>>

PlayTimeoutIter == PlayTimeoutIterOf(TRUE)

ClearBonusFlat(rm) == CLEAR_BASE

\* the level-clear bonus with rm whole seconds remaining (line 1077)
ClearBonus(rm) == CLEAR_BASE + rm * CLEAR_PER_SECOND

FinalLevelNextEarly(l) == l >= LAST_LEVEL

\* "if self.lv > 9" after a level is cleared (line 1089)
FinalLevelNext(l) == l > LAST_LEVEL

TreasureFoundNone(f) == f

\* "self.fnd += 1" of dig() on a treasure (line 1370)
TreasureFound(f) == f + 1

DisarmOfferedAlways == TRUE

\* "if self.shake_event_available" of dig() on a bomb (line 1381)
DisarmOffered == shake_event_available

OpportunityKept == TRUE

\* "self.shake_event_available = False" when dig() starts a disarm (line 1386)
OpportunityAfterArm == FALSE

\* an iteration of play() otherwise: encoder, button and dig(), clear check
\* (lines 1052-1096)
\* the clear check placed before the dig: it sees the count the iteration
\* began with
LevelClearedBeforeDig(f) == fnd >= Needed(lv)

\* play(), lines 1074-1075, with f treasures found after the dig
LevelCleared(f) == f >= Needed(lv)

\* the health test after a dig letting health 0 play on
DigDeadBelowZero(h) == h < 0

\* play(), line 1069: "if self.hp <= 0" after dig()
DigDead(h) == h <= 0

\* a dig that takes every cell for hidden
AlreadyRevealedNever(p) == FALSE

\* dig(), lines 1364-1365: "if self.rev[r][c]: return", the cursor being at p
AlreadyRevealed(p) == rev[p]

\* a disarm that restarts the level countdown
StmAfterArmRestarted(a) == 0

\* dig(), lines 1381-1387: starting a disarm assigns shake_start_time, never
\* stm
StmAfterArm(a) == a

\* renc() returns d and cbtn() samples the levels k
PlayNormalIterWith(d, k) ==
    /\ pc = "play" /\ ~DisarmOwnsIteration
    /\ ~PlayTimeUp(Remaining(tlm))
    /\   LET rm == Remaining(tlm)
             turn == d /= 0 /\ leAge > PLAY_DEBOUNCE_MS
             pos1 == IF turn THEN Move(d) ELSE pos
             pressed == CbtnPressed(k[1], k[2])
             digs == pressed /\ ~AlreadyRevealed(pos1)
             kind == grd[pos1]
             digT == digs /\ kind = "T"
             digB == digs /\ kind = "B"
             arm == digB /\ DisarmOffered
             hp1 == IF digB /\ ~arm THEN hp - 1 ELSE hp
             fnd1 == IF digT THEN TreasureFound(fnd) ELSE fnd
             sc1 == IF digT THEN sc + TREASURE_SCORE ELSE sc
             dead == pressed /\ DigDead(hp1)
             clear == ~dead /\ LevelCleared(fnd1)
         IN  /\ pos' = pos1
             /\ leAge' = IF turn THEN 0 ELSE leAge
             /\ Cbtn(k[1], k[2])
             /\ rev' = IF digs THEN [rev EXCEPT ![pos1] = TRUE] ELSE rev
             /\ fnd' = fnd1
             /\ hp' = hp1
             /\ bomb_disarm_active' = arm
             /\ shakeAge' = IF arm THEN 0 ELSE shakeAge
             /\ stmAge' = IF arm THEN StmAfterArm(stmAge) ELSE stmAge
             /\ shake_event_available' = IF arm THEN OpportunityAfterArm
                                          ELSE shake_event_available
             /\ sc' = IF clear THEN sc1 + ClearBonus(rm) ELSE sc1
             /\ lv' = IF clear THEN lv + 1 ELSE lv
             /\ st' = IF dead THEN "OVER"
                      ELSE IF clear /\ FinalLevelNext(lv + 1) THEN "LV10" ELSE st
             /\ pc' = IF dead \/ clear THEN "dispatch" ELSE pc
             /\ ev' = IF dead THEN "dig_over"
                      ELSE IF clear THEN "clear"
                      ELSE IF arm THEN "dig_arm"
                      ELSE IF digB THEN "dig_bomb"
                      ELSE IF digT THEN "dig_treasure"
                      ELSE IF digs THEN "dig_empty"
                      ELSE IF pressed THEN "dig_revealed"
                      ELSE IF turn THEN "move" ELSE "idle"
    /\ UNCHANGED <<df, grd, tlm, fch, fhp, cor, timeouts, played, waited, scope>>

PlayNormalIter == \E d \in RencValues, k \in ButtonLevels : PlayNormalIterWith(d, k)

\* run() calls lv10(): lines 1105-1130
Lv10Enter ==
    /\ pc = "dispatch" /\ st = "LV10"
    /\ fhp' = Cfg(df).h10
    /\ fch' = 0
    /\ stmAge' = 0
    /\ leAge' = LeHorizon
    /\ cor' \in {0, 1}
    /\ pc' = "lv10"
    /\ ev' = "lv10_enter"
    /\ UNCHANGED <<st, df, lv, hp, sc, shake_event_available, bomb_disarm_active,
                   shakeAge, grd, rev, pos, fnd, tlm, timeouts, played, waited, scope>>
    /\ UNCHANGED <<ebl, bl, lbtAge>>

Lv10TimeUpNever == FALSE

\* "if rm == 0" of lv10() (lines 1134-1138)
Lv10TimeUp == Remaining(Cfg(df).t10) = 0

Lv10RightInverted(ch, c) == ch /= c

\* "if self.fch == cor" (line 1179)
Lv10Right(ch, c) == ch = c

FinalHpKept(h) == h

\* "self.fhp -= 1" after a wrong choice (line 1198)
FinalHpAfterWrong(h) == h - 1

\* one iteration of the loop of lv10() (lines 1132-1215)
Lv10Iter ==
    /\ pc = "lv10"
    /\ IF Lv10TimeUp
       THEN /\ st' = "OVER" /\ pc' = "dispatch"
            /\ ev' = "lv10_timeout"
            /\ UNCHANGED <<fch, leAge, sc, fhp, stmAge, cor, ebl, bl, lbtAge>>
       ELSE \E d \in RencValues, k \in ButtonLevels, c2 \in {0, 1} :
              LET turn == d /= 0 /\ leAge > MENU_DEBOUNCE_MS
                  fch1 == IF turn THEN 1 - fch ELSE fch
                  pressed == CbtnPressed(k[1], k[2])
                  right == pressed /\ Lv10Right(fch1, cor)
                  wrong == pressed /\ ~Lv10Right(fch1, cor)
                  fhp1 == IF wrong THEN FinalHpAfterWrong(fhp) ELSE fhp
                  again == wrong /\ fhp1 > 0
              IN  /\ fch' = fch1
                  /\ leAge' = IF turn THEN 0 ELSE leAge
                  /\ Cbtn(k[1], k[2])
                  /\ sc' = IF right THEN sc + FINAL_SCORE ELSE sc
                  /\ fhp' = fhp1
                  /\ st' = IF right THEN "WIN"
                           ELSE IF wrong /\ ~again THEN "OVER" ELSE st
                  /\ pc' = IF pressed /\ ~again THEN "dispatch" ELSE pc
                  /\ stmAge' = IF again THEN 0 ELSE stmAge
                  /\ cor' = IF again THEN c2 ELSE cor
                  /\ ev' = IF right THEN "lv10_right"
                           ELSE IF again THEN "lv10_again"
                           ELSE IF wrong THEN "lv10_over"
                           ELSE IF turn THEN "lv10_turn" ELSE "lv10_idle"
    /\ UNCHANGED <<df, lv, hp, shake_event_available, bomb_disarm_active, shakeAge,
                   grd, rev, pos, fnd, tlm, timeouts, played, waited, scope>>

\* run() calls win() or over(): up to the wait loop
EndEnter ==
    /\ pc = "dispatch" /\ st \in {"WIN", "OVER"}
    /\ pc' = IF st = "WIN" THEN "win" ELSE "over"
    /\ ev' = "end_enter"
    /\ UNCHANGED <<st, df, lv, hp, sc, shake_event_available, bomb_disarm_active,
                   shakeAge, grd, rev, pos, fnd, stmAge, tlm, fch, fhp, leAge,
                   cor, timeouts, played, waited, scope>>
    /\ UNCHANGED <<ebl, bl, lbtAge>>

\* win() and over() starting the next game themselves
AfterEndPlay == "PLAY"

\* the state win() and over() leave on a press
AfterEnd == "MENU"

\* win(), lines 1239-1242, and over(), lines 1266-1269
EndWait ==
    /\ pc \in {"win", "over"}
    /\ \E k \in ButtonLevels :
         /\ Cbtn(k[1], k[2])
         /\ IF CbtnPressed(k[1], k[2])
            THEN pc' = "dispatch" /\ st' = AfterEnd /\ ev' = "end_done"
            ELSE UNCHANGED <<pc, st, ev>>
    /\ UNCHANGED <<df, lv, hp, sc, shake_event_available, bomb_disarm_active,
                   shakeAge, grd, rev, pos, fnd, stmAge, tlm, fch, fhp, leAge,
                   cor, timeouts, played, waited, scope>>

\* scope "deep": a clock step in a level beyond one between two digs needed
SpareStep ==
    pc = "play" /\ scope = "deep" /\ stmAge >= (Needed(lv) - 1) * GameTickMs

\* a final level whose clock stands still
Lv10AgeFrozen(a) == a

\* lv10(), line 1134: "now - self.stm" one clock step later
Lv10Age(a) == Elapse(a, GameTickMs, StmHorizon)

\* a clock that stands still for the disarm
DisarmAgeFrozen(a) == a

\* play(), line 962: "elapsed = now - self.shake_start_time" one clock step
\* later
DisarmAge(a) == Elapse(a, GameTickMs, SHAKE_DURATION_MS)

\* the clock advances by one step
GameTick ==
    /\ SpareStep => waited < DeepSlack
    /\ waited' = IF SpareStep THEN waited + 1 ELSE waited
    /\ lbtAge' = Elapse(lbtAge, GameTickMs, BTN_DEBOUNCE_MS)
    /\ leAge' = Elapse(leAge, GameTickMs, LeHorizon)
    /\ stmAge' = IF pc = "play" THEN Elapse(stmAge, GameTickMs, StmHorizon)
                 ELSE IF pc = "lv10" THEN Lv10Age(stmAge) ELSE stmAge
    /\ shakeAge' = IF bomb_disarm_active
                   THEN DisarmAge(shakeAge) ELSE shakeAge
    /\ UNCHANGED <<pc, st, df, lv, hp, sc, shake_event_available,
                   bomb_disarm_active, grd, rev, pos, fnd, tlm, fch, fhp, cor,
                   timeouts, played, scope>>
    /\ ev' = "tick"
    /\ UNCHANGED <<ebl, bl>>

(***************************************************************************)
(* Game: ilvl(), shuf() and move() step by step                            *)
(***************************************************************************)
\* play() is about to call ilvl() for some level.  ilvl(), shuf() and move()
\* read lv, df, the grid and the cursor only; the other fields are as
\* construction left them.
LevelInit ==
    /\ pc = "ilvl"
    /\ st = "PLAY" /\ df = 0 /\ lv \in DOMAIN LVL /\ hp = 6 /\ sc = 0
    /\ shake_event_available = FALSE /\ bomb_disarm_active = FALSE
    /\ shakeAge = SHAKE_DURATION_MS
    /\ grd = << >> /\ rev = << >> /\ pos = <<0, 0>> /\ fnd = 0
    /\ stmAge = StmHorizon /\ tlm = 60 /\ fch = 0 /\ fhp = 2
    /\ leAge = LeHorizon /\ cor = 0
    /\ timeouts = 0 /\ played = 1 /\ waited = 0 /\ scope = "broad"
    /\ ev = "init"
    /\ smp = NoSample /\ armedGen = 0 /\ armedLv = 0
    /\ ps = << >> /\ si = 0 /\ swaps = 0

\* ilvl() lists the positions and calls shuf(): i = len(l) - 1
IlvlBegin ==
    /\ pc = "ilvl"
    /\ ps' = Positions(LVL[lv][1], LVL[lv][2])
    /\ si' = Len(ps') - 1
    /\ swaps' = 0
    /\ pc' = "shuf"
    /\ ev' = "ilvl_begin"
    /\ UNCHANGED <<st, df, lv, hp, sc, shake_event_available, bomb_disarm_active,
                   shakeAge, grd, rev, pos, fnd, stmAge, tlm, fch, fhp, leAge,
                   cor, timeouts, played, waited, scope>>

\* one round of the loop of shuf(): j = random.randint(0, i), swap
ShufStep ==
    /\ pc = "shuf" /\ si >= 1
    /\ \E j \in 0..si :
         /\ j /= si => swaps < MaxSwaps
         /\ ps' = Swap(ps, si, j)
         /\ swaps' = IF j /= si THEN swaps + 1 ELSE swaps
    /\ si' = si - 1
    /\ ev' = "shuf_step"
    /\ UNCHANGED <<pc, st, df, lv, hp, sc, shake_event_available,
                   bomb_disarm_active, shakeAge, grd, rev, pos, fnd, stmAge,
                   tlm, fch, fhp, leAge, cor, timeouts, played, waited, scope>>

\* shuf() returns; ilvl() fills the grid and resets the level's fields
IlvlEnd ==
    /\ pc = "shuf" /\ si < 1
    /\ IlvlGrid(PlaceGrid(lv, ps))
    /\ ps' = << >> /\ si' = 0
    /\ pc' = "level"
    /\ ev' = "ilvl_end"
    /\ UNCHANGED <<st, df, lv, sc, shakeAge, fch, fhp, leAge, cor, timeouts,
                   played, waited, scope, swaps>>

\* play() calls move(d) for a turn d of the encoder
LevelMove ==
    /\ pc = "level"
    /\ \E d \in {-1, 1} :
         /\ pos' = Move(d)
         /\ ev' = IF d > 0 THEN "move_on" ELSE "move_back"
    /\ UNCHANGED <<pc, st, df, lv, hp, sc, shake_event_available,
                   bomb_disarm_active, shakeAge, grd, rev, fnd, stmAge, tlm,
                   fch, fhp, leAge, cor, timeouts, played, waited, scope>>
    /\ UNCHANGED lvlVars

btnGhost == <<ebtnPin, btnPin, btnOp, presses, fallVars>>

(***************************************************************************)
(* Specification of the game                                               *)
(***************************************************************************)
Init == GameInit /\ BtnInit /\ EncIdle

\* a step that is no disarm iteration and enters no disarm
NoDisarm == smp' = NoSample /\ UNCHANGED <<armedGen, armedLv>>

Next ==
    \/ WelcomeWait /\ NoDisarm /\ UNCHANGED <<encVars, btnGhost, lvlVars>>
    \/ MenuEnter /\ NoDisarm /\ UNCHANGED <<encVars, btnGhost, lvlVars>>
    \/ MenuIter /\ NoDisarm /\ UNCHANGED <<encVars, btnGhost, lvlVars>>
    \/ /\ PlayEnter /\ smp' = NoSample /\ armedGen' = 0 /\ armedLv' = 0
       /\ UNCHANGED <<encVars, btnGhost, lvlVars>>
    \/ /\ PlayDisarmIter /\ UNCHANGED <<armedGen, armedLv>>
       /\ UNCHANGED <<encVars, btnGhost, lvlVars>>
    \/ /\ PlayTimeoutIter /\ smp' = NoSample
       /\ armedGen' = IF stmAge' = 0 THEN 0 ELSE armedGen
       /\ UNCHANGED <<armedLv, encVars, btnGhost, lvlVars>>
    \/ /\ PlayNormalIter /\ smp' = NoSample
       /\ armedGen' = IF bomb_disarm_active' THEN armedGen + 1 ELSE armedGen
       /\ armedLv' = IF bomb_disarm_active' THEN armedLv + 1 ELSE armedLv
       /\ UNCHANGED <<encVars, btnGhost, lvlVars>>
    \/ Lv10Enter /\ NoDisarm /\ UNCHANGED <<encVars, btnGhost, lvlVars>>
    \/ Lv10Iter /\ NoDisarm /\ UNCHANGED <<encVars, btnGhost, lvlVars>>
    \/ EndEnter /\ NoDisarm /\ UNCHANGED <<encVars, btnGhost, lvlVars>>
    \/ EndWait /\ NoDisarm /\ UNCHANGED <<encVars, btnGhost, lvlVars>>
    \/ GameTick /\ NoDisarm /\ UNCHANGED <<encVars, btnGhost, lvlVars>>

Spec == Init /\ [][Next]_vars

(***************************************************************************)
(* Specification of the encoder object alone                               *)
(***************************************************************************)
InitEnc == EncInit /\ BtnIdle /\ GameInit /\ scope = "broad"

NextEnc ==
    \/ EncUpdate /\ UNCHANGED <<btnVars, fallVars, gameVars, lvlVars>>
    \/ EncGetDelta /\ UNCHANGED <<btnVars, fallVars, gameVars, lvlVars>>
    \/ EncReset /\ UNCHANGED <<btnVars, fallVars, gameVars, lvlVars>>
    \/ EncPins /\ UNCHANGED <<btnVars, fallVars, gameVars, lvlVars>>
    \/ EncTick /\ UNCHANGED <<btnVars, fallVars, gameVars, lvlVars>>

SpecEnc == InitEnc /\ [][NextEnc]_vars

(***************************************************************************)
(* Specification of the button poll alone                                  *)
(***************************************************************************)
\* the menu alone, from boot to the start of the first game, on a clock
\* fine enough to stop inside and at the end of the debounce interval
InitMenu == Init /\ scope = "broad"

NextMenu ==
    \/ WelcomeWait /\ NoDisarm /\ UNCHANGED <<encVars, btnGhost, lvlVars>>
    \/ MenuEnter /\ NoDisarm /\ UNCHANGED <<encVars, btnGhost, lvlVars>>
    \/ MenuIter /\ NoDisarm /\ UNCHANGED <<encVars, btnGhost, lvlVars>>
    \/ MenuTick /\ NoDisarm /\ UNCHANGED <<encVars, btnGhost, lvlVars>>

SpecMenu == InitMenu /\ [][NextMenu]_vars

\* the generation of one level's grid with the shuffle taken choice by
\* choice, then the cursor moved over the grid
InitLevel == LevelInit /\ BtnInit /\ EncIdle

NextLevel ==
    \/ IlvlBegin /\ NoDisarm /\ UNCHANGED <<encVars, btnVars, fallVars>>
    \/ ShufStep /\ NoDisarm /\ UNCHANGED <<encVars, btnVars, fallVars>>
    \/ IlvlEnd /\ NoDisarm /\ UNCHANGED <<encVars, btnVars, fallVars>>
    \/ LevelMove /\ NoDisarm /\ UNCHANGED <<encVars, btnVars, fallVars>>

SpecLevel == InitLevel /\ [][NextLevel]_vars

\* a game whose player, once play() runs, turns nothing and presses nothing:
\* renc() returns 0 and both buttons read released in every iteration.  The
\* loop of play() runs on and time.monotonic() advances (weak fairness).
Released == <<TRUE, TRUE>>

PlayIdleIter ==
    /\ PlayNormalIterWith(0, Released) /\ smp' = NoSample
    /\ armedGen' = IF bomb_disarm_active' THEN armedGen + 1 ELSE armedGen
    /\ armedLv' = IF bomb_disarm_active' THEN armedLv + 1 ELSE armedLv
    /\ UNCHANGED <<encVars, btnGhost, lvlVars>>

IdleTimeout ==
    /\ PlayTimeoutIterOf(FALSE) /\ smp' = NoSample
    /\ armedGen' = IF stmAge' = 0 THEN 0 ELSE armedGen
    /\ UNCHANGED <<armedLv, encVars, btnGhost, lvlVars>>

ClockStep == GameTick /\ NoDisarm /\ UNCHANGED <<encVars, btnGhost, lvlVars>>

InitIdle == Init /\ scope = "broad"

NextIdle ==
    \/ WelcomeWait /\ NoDisarm /\ UNCHANGED <<encVars, btnGhost, lvlVars>>
    \/ MenuEnter /\ NoDisarm /\ UNCHANGED <<encVars, btnGhost, lvlVars>>
    \/ MenuIter /\ NoDisarm /\ UNCHANGED <<encVars, btnGhost, lvlVars>>
    \/ /\ PlayEnter /\ smp' = NoSample /\ armedGen' = 0 /\ armedLv' = 0
       /\ UNCHANGED <<encVars, btnGhost, lvlVars>>
    \/ PlayIdleIter
    \/ IdleTimeout
    \/ ClockStep

SpecIdle ==
    /\ InitIdle /\ [][NextIdle]_vars
    /\ WF_vars(ClockStep) /\ WF_vars(IdleTimeout)

\* the game with its loops running on: time.monotonic() advances, and the
\* loops of play() (during a disarm) and of lv10() take their next iteration
DisarmStep ==
    /\ PlayDisarmIter /\ UNCHANGED <<armedGen, armedLv>>
    /\ UNCHANGED <<encVars, btnGhost, lvlVars>>

Lv10Step == Lv10Iter /\ NoDisarm /\ UNCHANGED <<encVars, btnGhost, lvlVars>>

SpecFair ==
    /\ Spec
    /\ WF_vars(ClockStep) /\ WF_vars(DisarmStep) /\ WF_vars(Lv10Step)

InitBtn == BtnInit /\ EncIdle /\ GameInit /\ scope = "broad"

NextBtn ==
    \/ BtnPoll /\ UNCHANGED <<encVars, gameVars, lvlVars>>
    \/ BtnPins /\ UNCHANGED <<encVars, gameVars, lvlVars>>
    \/ BtnTick /\ UNCHANGED <<encVars, gameVars, lvlVars>>

SpecBtn == InitBtn /\ [][NextBtn]_vars

(***************************************************************************)
(* Claims about the encoder                                                *)
(***************************************************************************)
\* C1: after any sequence of update(), get_delta() and reset() calls the
\* detent position is floor(raw / pulses_per_detent), also for negative raw:
\* it is the one integer q with q*ppd <= raw < (q+1)*ppd.
C1_DetentIsFloor ==
    /\ position * pulses_per_detent <= position_raw
    /\ position_raw < (position + 1) * pulses_per_detent

\* an accepted step has left a negative raw count that is no multiple of
\* pulses_per_detent
C1_Witness ==
    /\ encOp = "update_accepted"
    /\ position_raw < 0
    /\ position_raw % pulses_per_detent /= 0

\* C2: the values get_delta() returned since creation / the last reset, plus
\* the delta still pending, add up to the detent position minus the detent
\* position at creation / last reset.
C2_DeltaSum == deltaReturned + delta_accum = position - resetPos

\* get_delta() has returned something, more is pending, after a reset to a
\* detent other than 0
C2_Witness ==
    /\ deltaReturned /= 0 /\ delta_accum /= 0 /\ resetPos /= 0

\* the steps that are a call of update(): the lines and the clock stand still
\* and the call is recorded
IsUpdateCall ==
    /\ pinA' = pinA /\ pinB' = pinB
    /\ encOp' \in {"update_same", "update_accepted", "update_rejected"}
    /\ ~(sinceChange' > sinceChange)

\* C3: an A transition seen less than debounce_ms after the last accepted
\* change is not counted (raw count, detent and delta unchanged) and is
\* consumed (the stored level becomes the new one, so no later update() counts
\* it); an A transition seen after the interval counts exactly one step; an
\* update() that sees A unchanged counts nothing.
C3_Debounce ==
    [][ IsUpdateCall =>
          /\ (pinA /= last_a /\ sinceChange < debounce_ms) =>
                /\ position_raw' = position_raw /\ position' = position
                /\ delta_accum' = delta_accum /\ last_a' = pinA
          /\ (pinA /= last_a /\ sinceChange >= debounce_ms) =>
                Abs(position_raw' - position_raw) = 1
          /\ (pinA = last_a) => position_raw' = position_raw ]_vars

\* one step was accepted and the next A transition came inside the interval
\* and was rejected
C3_Witness ==
    /\ encOp = "update_rejected"
    /\ resetPos = 0 /\ Abs(position_raw) = 1
    /\ sinceChange < debounce_ms
    /\ last_a = pinA

(***************************************************************************)
(* Claims about the buttons                                                *)
(***************************************************************************)
\* C4: a poll reports a press only if a button's level is low while its own
\* stored level is high and at least 200 ms have passed since the last
\* accepted press; the accepted press restarts the shared interval, and one
\* poll yields one press even when both buttons went low.
C4_PressOnlyOnEdge ==
    [][ presses' /= presses =>
          /\ presses' = presses + 1
          /\ lbtAge >= 200
          /\ (ebl /\ ~ebtnPin) \/ (bl /\ ~btnPin)
          /\ lbtAge' = 0
          /\ ebl' = ebtnPin /\ bl' = btnPin ]_vars

\* both buttons went low and one poll accepted them as a single press
C4_Witness ==
    /\ btnOp = "pressed" /\ presses = 1 /\ lbtAge = 0
    /\ ~ebl /\ ~bl /\ falls = 1

\* C5 (as claimed): two physical presses less than 200 ms apart yield one
\* accepted press in total.
C5_TwoPressesOneEvent ==
    (falls = 2 /\ fallGap < 200) => presses <= 1

\* C6 (as claimed): a poll less than 200 ms after the last accepted press
\* reports no press and stores the sampled levels.
C6_LevelsStoredInWindow ==
    [][ (btnOp' = "debounced" /\ btnOp /= "debounced") =>
          (presses' = presses /\ ebl' = ebtnPin /\ bl' = btnPin) ]_vars

(***************************************************************************)
(* Claims about the game controller                                        *)
(***************************************************************************)
States == {"MENU", "PLAY", "LV10", "WIN", "OVER"}

\* C7: the controller state is always one of MENU, PLAY, LV10, WIN, OVER, and
\* it changes only MENU->PLAY (at level 1), PLAY->LV10 (level 9 cleared, the
\* level becomes 10), PLAY->OVER, LV10->WIN, LV10->OVER, WIN->MENU, OVER->MENU;
\* while the state stays the same the level changes only in PLAY, to the next
\* level, at most 9. So WIN is entered from LV10 only.
C7_StateMachine ==
    /\ st \in States
    /\ [][ /\ st' \in States
           /\ st' /= st =>
                \/ st = "MENU" /\ st' = "PLAY" /\ lv' = 1
                \/ /\ st = "PLAY" /\ st' = "LV10"
                   /\ lv = 9 /\ lv' = 10 /\ fnd' >= LVL[9][5]
                \/ st = "PLAY" /\ st' = "OVER"
                \/ st = "LV10" /\ st' \in {"WIN", "OVER"}
                \/ st \in {"WIN", "OVER"} /\ st' = "MENU"
           /\ (st' = st /\ lv' /= lv) =>
                st = "PLAY" /\ lv' = lv + 1 /\ lv' <= 9 ]_vars

\* the final choice was answered right after level 9 was cleared
C7_Witness ==
    st = "WIN" /\ ev = "lv10_right" /\ lv = 10 /\ played = 1

\* an iteration of play() starts with no disarm active and the time up
TimeUp ==
    pc = "play" /\ ~bomb_disarm_active /\ tlm - (stmAge \div 1000) <= 0

\* C8 (as claimed): an iteration of play() that finds the time up with no
\* disarm active and health h >= 2 leaves the state PLAY, the level number
\* unchanged, a freshly generated grid and health h - 1.
C8_TimeoutCostsHealth ==
    [][ (TimeUp /\ hp >= 2 /\ ev' /= "tick") =>
          /\ st' = "PLAY" /\ lv' = lv
          /\ fnd' = 0 /\ pos' = <<0, 0>>
          /\ \A p \in DOMAIN rev' : ~rev'[p]
          /\ hp' = hp - 1 ]_vars

\* C9: an iteration of play() that finds the time up with no disarm active
\* and health 1 leaves health 0 and the state OVER, and the grid, the
\* revealed cells, the cursor and the treasures found as they were.
C9_TimeoutAtOneHealth ==
    [][ (TimeUp /\ hp = 1 /\ ev' /= "tick") =>
          /\ hp' = 0 /\ st' = "OVER"
          /\ grd' = grd /\ rev' = rev /\ pos' = pos /\ fnd' = fnd ]_vars

\* the time ran out at health 1, after a dig
C9_Witness ==
    /\ ev = "timeout_over" /\ st = "OVER" /\ hp = 0
    /\ \E p \in DOMAIN rev : rev[p]

\* C10: an iteration of play() that reaches the clear check (time left, no
\* disarm active, health not used up by the dig) with the treasures found at
\* least the number the level needs adds exactly 100 + 2 x (remaining whole
\* seconds) to the score (besides the 50 of a treasure dug in the iteration),
\* raises the level by exactly 1 and leaves the state PLAY if the new level
\* is at most 9 and LV10 otherwise; with fewer treasures found the level and
\* the state stay and the score gets no bonus.
C10_ClearCheck ==
    [][ ( /\ pc = "play" /\ ~bomb_disarm_active
          /\ tlm - (stmAge \div 1000) > 0
          /\ ev' /= "tick" /\ st' /= "OVER" ) =>
          IF fnd' >= LVL[lv][5]
          THEN /\ sc' = sc + 50 * (fnd' - fnd)
                        + 100 + 2 * (tlm - (stmAge \div 1000))
               /\ lv' = lv + 1
               /\ st' = IF lv' <= 9 THEN "PLAY" ELSE "LV10"
          ELSE /\ sc' = sc + 50 * (fnd' - fnd)
               /\ lv' = lv /\ st' = "PLAY" ]_vars

\* level 9 was cleared with time left
C10_Witness ==
    ev = "clear" /\ lv = 10 /\ st = "LV10" /\ sc > 9 * 100

\* the poll of the step reported a press
PressAccepted == lbtAge >= 200 /\ lbtAge' = 0

\* an iteration of play() with time left and no disarm active gets a press
\* with the cursor, after its move, on an unrevealed cell of kind k
DigsAt(k) ==
    /\ pc = "play" /\ ~bomb_disarm_active
    /\ tlm - (stmAge \div 1000) > 0
    /\ PressAccepted
    /\ ~rev[pos'] /\ grd[pos'] = k

\* C11: digging an unrevealed treasure cell marks that cell (and no other)
\* revealed, adds exactly 1 to the treasures found and exactly 50 to the
\* score (plus the clear bonus when the level is thereby cleared) and leaves
\* health unchanged; on level 1 it clears the level in the same iteration:
\* play() ends with the state PLAY and the level 2.
C11_DigTreasure ==
    [][ DigsAt("T") =>
          /\ rev' = [rev EXCEPT ![pos'] = TRUE]
          /\ fnd' = fnd + 1 /\ hp' = hp
          /\ sc' = sc + 50 + (IF fnd' >= LVL[lv][5]
                               THEN 100 + 2 * (tlm - (stmAge \div 1000)) ELSE 0)
          /\ lv = 1 => (lv' = 2 /\ st' = "PLAY" /\ pc' = "dispatch") ]_vars

\* a treasure dug on level 1 of the easy difficulty cleared the level
C11_Witness ==
    /\ ev = "clear" /\ lv = 2 /\ st = "PLAY" /\ pc = "dispatch"
    /\ df = 0 /\ fnd = 1 /\ hp = 6 /\ sc > 150

\* C12: a disarm becomes active only in an iteration that digs an unrevealed
\* bomb cell while the opportunity is available; the step clears the
\* opportunity, records the start time and leaves health unchanged.
C12_DisarmEntry ==
    [][ (~bomb_disarm_active /\ bomb_disarm_active') =>
          /\ DigsAt("B") /\ shake_event_available
          /\ ~shake_event_available' /\ shakeAge' = 0
          /\ hp' = hp /\ rev'[pos'] ]_vars

\* a bomb dug in the easy difficulty started a disarm
C12_Witness ==
    /\ ev = "dig_arm" /\ bomb_disarm_active /\ ~shake_event_available
    /\ shakeAge = 0 /\ hp = 6 /\ grd[pos] = "B" /\ rev[pos]

\* C13 (as claimed): between two entries of play(), that is for one level
\* number of a play-through, the disarm is entered at most once, whatever
\* digs, time-outs and restarts occur on the level.
C13_OncePerLevel ==
    armedLv <= 1

\* C13 (amended): for each generation of a level's grid (the entry of the
\* level, or its restart after a time-out) the disarm is entered at most
\* once; a restart after a time-out grants the opportunity again.
C13_OncePerGeneration ==
    armedGen <= 1

\* a disarm was entered a second time on a level, after a time-out restart
C13_Witness ==
    armedLv = 2 /\ armedGen = 1 /\ timeouts >= 1 /\ bomb_disarm_active

\* the motion of the step's sample exceeds gravity by more than the threshold
Shaken == smp'[1] /\ smp'[2] > 98 + 20

\* an iteration of play() with a disarm active
DisarmIter == pc = "play" /\ bomb_disarm_active /\ ev' /= "tick"

\* C14: a disarm iteration that detects a shake less than 3 s after the
\* disarm started ends the disarm with success: the disarm is inactive, the
\* score is exactly 100 higher, health is unchanged, the opportunity stays
\* consumed and the state stays PLAY.
C14_DisarmSuccess ==
    [][ (DisarmIter /\ shakeAge < 3000 /\ Shaken) =>
          /\ ~bomb_disarm_active' /\ sc' = sc + 100 /\ hp' = hp
          /\ ~shake_event_available /\ ~shake_event_available'
          /\ st' = "PLAY" /\ pc' = "play" ]_vars

\* a shake inside the 3 s defused the bomb
C14_Witness ==
    /\ ev = "disarmed" /\ smp[1] /\ smp[2] > 98 + 20
    /\ ~bomb_disarm_active /\ hp = 6 /\ sc >= 100 /\ st = "PLAY"

\* C15: a disarm iteration 3 s or more after the disarm started ends the
\* disarm with failure: the disarm is inactive, health is exactly 1 lower,
\* the score is unchanged, and the state is OVER if health is then 0 and
\* otherwise PLAY on the same level and grid.
C15_DisarmFailure ==
    [][ (DisarmIter /\ shakeAge >= 3000) =>
          /\ ~bomb_disarm_active' /\ hp' = hp - 1 /\ sc' = sc
          /\ IF hp' = 0 THEN st' = "OVER"
             ELSE st' = "PLAY" /\ pc' = "play" /\ lv' = lv /\ grd' = grd ]_vars

\* the 3 s ran out with no shake and the bomb took a health point
C15_Witness ==
    /\ ev = "disarm_failed" /\ ~(smp[1] /\ smp[2] > 98 + 20)
    /\ ~bomb_disarm_active /\ hp = 5 /\ st = "PLAY"

\* C16: a disarm iteration 3 s or more after the disarm started in which a
\* shake is present ends the disarm with failure all the same: health is 1
\* lower and the score gets no disarm bonus.
C16_TimeoutBeforeShake ==
    [][ (DisarmIter /\ shakeAge >= 3000 /\ Shaken) =>
          /\ ~bomb_disarm_active' /\ hp' = hp - 1 /\ sc' = sc ]_vars

\* the 3 s had run out when the shake came
C16_Witness ==
    /\ ev = "disarm_failed" /\ smp[1] /\ smp[2] > 98 + 20
    /\ ~bomb_disarm_active /\ hp = 5

\* C17: an iteration of play() with a disarm active does only the disarm
\* logic: the buttons are not polled and the encoder's debounce time is not
\* touched; cursor, grid, revealed cells, treasures found and level number
\* are unchanged; the level time is not acted on (no restart, even with the
\* time up) and no clear is awarded (the score changes by the disarm bonus
\* only).
C17_DisarmOwnsLoop ==
    [][ DisarmIter =>
          /\ ebl' = ebl /\ bl' = bl /\ lbtAge' = lbtAge /\ leAge' = leAge
          /\ pos' = pos /\ grd' = grd /\ rev' = rev /\ fnd' = fnd /\ lv' = lv
          /\ stmAge' = stmAge /\ tlm' = tlm /\ timeouts' = timeouts
          /\ shake_event_available' = shake_event_available
          /\ sc' \in {sc, sc + 100} /\ hp' \in {hp, hp - 1}
          /\ st' \in {"PLAY", "OVER"} ]_vars

\* a disarm iteration ran with the level time up and did not restart the level
C17_Witness ==
    /\ ev = "disarm_failed" /\ pc = "play" /\ st = "PLAY"
    /\ stmAge >= 1000 * tlm /\ timeouts = 0 /\ \E p \in DOMAIN rev : rev[p]

\* an iteration of lv10() with final-level time left gets a confirm press
Lv10Confirm ==
    /\ pc = "lv10"
    /\ CFG[df + 1].t10 - (stmAge \div 1000) > 0
    /\ PressAccepted

\* C18: in LV10 a confirm press with the choice (after the iteration's
\* toggle) different from the correct answer lowers the final-level health
\* by exactly 1 and leaves the score; at 0 the state becomes OVER, otherwise
\* the state stays LV10, a correct answer is drawn again and the countdown
\* restarts from the full time.
C18_WrongChoice ==
    [][ (Lv10Confirm /\ fch' /= cor) =>
          /\ fhp' = fhp - 1 /\ sc' = sc
          /\ IF fhp' = 0 THEN st' = "OVER"
             ELSE /\ st' = "LV10" /\ pc' = "lv10"
                  /\ stmAge' = 0 /\ cor' \in {0, 1} ]_vars

\* with final health 2, the second wrong choice ended the game
C18_Witness ==
    /\ ev = "lv10_over" /\ st = "OVER" /\ fhp = 0
    /\ CFG[df + 1].h10 = 2 /\ fch /= cor

\* C19: in LV10 a confirm press with the choice equal to the correct answer
\* adds exactly 500 to the score, leaves the final-level health and makes
\* the state WIN.
C19_RightChoice ==
    [][ (Lv10Confirm /\ fch' = cor) =>
          /\ sc' = sc + 500 /\ fhp' = fhp /\ st' = "WIN" ]_vars

\* the right chest was picked at the second attempt
C19_Witness ==
    /\ ev = "lv10_right" /\ st = "WIN" /\ fch = cor
    /\ fhp = 1 /\ CFG[df + 1].h10 = 2 /\ sc >= 500

\* C20: an iteration of lv10() that finds the whole seconds since the
\* countdown start at or above the difficulty's final-level time limit makes
\* the state OVER whatever the final-level health and the inputs: the
\* buttons are not polled and the choice, health and score are left.
C20_FinalTimeout ==
    [][ ( /\ pc = "lv10" /\ (stmAge \div 1000) >= CFG[df + 1].t10
          /\ ev' /= "tick" ) =>
          /\ st' = "OVER"
          /\ fhp' = fhp /\ sc' = sc /\ fch' = fch
          /\ lbtAge' = lbtAge /\ ebl' = ebl /\ bl' = bl ]_vars

\* the final countdown ran out with both final health points left
C20_Witness ==
    /\ ev = "lv10_timeout" /\ st = "OVER" /\ fhp = 2
    /\ (stmAge \div 1000) >= CFG[df + 1].t10

\* C21 as stated: WIN and OVER are left only by a confirm press, the next
\* state is MENU, and on arrival in MENU the score, the level number and the
\* health hold their initial values.
C21_ClearedOnReturn ==
    [][ (st \in {"WIN", "OVER"} /\ st' /= st) =>
          /\ PressAccepted /\ st' = "MENU"
          /\ sc' = 0 /\ lv' = StartLevel /\ hp' = Cfg(df').hp ]_vars

\* C21: WIN and OVER are left only by a confirm press and the next state is
\* MENU; the score, the level number and the health arrive in MENU as the
\* ended play-through left them.
C21_EndToMenu ==
    [][ (st \in {"WIN", "OVER"} /\ st' /= st) =>
          /\ PressAccepted /\ st' = "MENU"
          /\ sc' = sc /\ lv' = lv /\ hp' = hp ]_vars

\* back in MENU after a win, with the final level's number and score
C21_Witness ==
    /\ ev = "end_done" /\ st = "MENU" /\ pc = "dispatch"
    /\ lv = 10 /\ sc >= FINAL_SCORE /\ fch = cor

\* C22: a confirm press in MENU sets the health to the selected difficulty's
\* starting health, the time limit to its per-level limit, the level to 1
\* and the score to 0, and makes the state PLAY, whatever a previous
\* play-through left in these fields.
C22_Start ==
    [][ (pc = "menu" /\ PressAccepted) =>
          /\ hp' = CFG[df' + 1].hp /\ tlm' = CFG[df' + 1].t
          /\ lv' = 1 /\ sc' = 0 /\ st' = "PLAY" ]_vars

\* a second game was started on easy after a hard game that reached the
\* final level
C22_Witness ==
    /\ ev = "start" /\ st = "PLAY" /\ played = 2
    /\ df = 0 /\ hp = 6 /\ tlm = 60 /\ lv = 1 /\ sc = 0

\* C23: in MENU the difficulty index stays in {0, 1, 2}; a nonzero rotary
\* delta d makes it (index + d) mod 3, and restarts the interval, only when
\* more than 150 ms have passed since the last accepted change; otherwise,
\* and with a zero delta, the index is unchanged.
C23_Difficulty ==
    [][ \A d \in {-1, 0, 1} :
          MenuIterD(d) =>
            /\ df' \in {0, 1, 2}
            /\ IF d /= 0 /\ leAge > 150
               THEN df' = (df + d) % 3 /\ leAge' = 0
               ELSE df' = df /\ leAge' = leAge ]_vars

\* a turn exactly 150 ms after an accepted one was ignored
C23_Witness ==
    /\ pc = "menu" /\ ev = "menu_held" /\ leAge = 150 /\ df = 2

\* C24: for each of the nine level entries and every sequence of choices of
\* the shuffle, the generated grid has exactly rows x columns cells, of which
\* exactly `treasures` hold a treasure, exactly `bombs` hold a bomb (no cell
\* both) and all the others are empty.
C24_GridCounts ==
    pc = "level" =>
      LET r == LVL[lv][1]
          co == LVL[lv][2]
          tr == LVL[lv][3]
          bm == LVL[lv][4]
      IN  /\ DOMAIN grd = Cells(r, co)
          /\ Cardinality(DOMAIN grd) = r * co
          /\ \A p \in DOMAIN grd : grd[p] \in {"T", "B", " "}
          /\ Cardinality({p \in DOMAIN grd : grd[p] = "T"}) = tr
          /\ Cardinality({p \in DOMAIN grd : grd[p] = "B"}) = bm
          /\ Cardinality({p \in DOMAIN grd : grd[p] = " "}) = r * co - tr - bm

\* the last level's grid after a shuffle whose one exchange brought a bomb
\* to the first cell
C24_Witness ==
    /\ pc = "level" /\ ev = "ilvl_end" /\ lv = 9 /\ swaps = 1
    /\ grd[<<0, 0>>] = "B"

\* the row-major index of cell p
CellIndex(p) == p[1] * LVL[lv][2] + p[2]

\* the cursor after n calls of move(+1) from p
RECURSIVE MoveTimes(_, _)
MoveTimes(p, n) == IF n = 0 THEN p ELSE MoveTimes(MoveFrom(p, 1), n - 1)

\* C26: the cursor always is a cell of the grid; move(+1) takes it to the
\* next cell in row-major order, from the end of a row to the start of the
\* next and from the last cell to (0,0); move(-1) undoes move(+1) and
\* move(+1) undoes move(-1); rows x columns calls of move(+1) visit every
\* cell once and end where they began.
C26_CyclicTraversal ==
    pc = "level" =>
      LET n == LVL[lv][1] * LVL[lv][2]
      IN  /\ pos \in DOMAIN grd
          /\ MoveFrom(pos, 1) \in DOMAIN grd
          /\ MoveFrom(pos, -1) \in DOMAIN grd
          /\ CellIndex(MoveFrom(pos, 1)) = (CellIndex(pos) + 1) % n
          /\ MoveFrom(MoveFrom(pos, 1), -1) = pos
          /\ MoveFrom(MoveFrom(pos, -1), 1) = pos
          /\ MoveTimes(pos, n) = pos
          /\ {MoveTimes(pos, k) : k \in 0..(n - 1)} = DOMAIN grd

\* on the 3 x 4 grid of level 6 a move back left the cursor on the last cell
C26_Witness ==
    /\ pc = "level" /\ ev = "move_back" /\ lv = 6 /\ pos = <<2, 3>>

\* C30: there are nine level entries, the level being generated or played
\* is one of them, and each has rows x columns at least treasures + bombs
\* and asks for no more treasures than it hides.
C30_LevelTable ==
    /\ DOMAIN LVL = 1..9
    /\ lv \in DOMAIN LVL
    /\ \A l \in DOMAIN LVL :
         /\ LVL[l][1] * LVL[l][2] >= LVL[l][3] + LVL[l][4]
         /\ LVL[l][5] <= LVL[l][3]

\* the grid of level 7 was generated: 10 of its 12 cells are taken
C30_Witness ==
    /\ pc = "level" /\ lv = 7
    /\ Cardinality({p \in DOMAIN grd : grd[p] /= " "}) = 10
    /\ Cardinality(DOMAIN grd) = 12

\* C25: after every grid generation, on entering a level and on a time-out
\* restart, every cell is unrevealed, the cursor is at (0,0), the count of
\* treasures found is 0, the level's start time is the current time, no
\* disarm is active, and the disarm opportunity is available exactly on the
\* easiest difficulty.
C25_AfterGeneration ==
    ev \in {"play_enter", "timeout_restart"} =>
      /\ DOMAIN rev = DOMAIN grd
      /\ \A p \in DOMAIN rev : ~rev[p]
      /\ pos = <<0, 0>> /\ fnd = 0 /\ stmAge = 0
      /\ ~bomb_disarm_active
      /\ shake_event_available <=> (df = 0)

\* an easy level was restarted by a time-out after its disarm had been used
C25_Witness ==
    /\ ev = "timeout_restart" /\ pc = "play" /\ df = 0 /\ armedLv = 1
    /\ shake_event_available /\ pos = <<0, 0>> /\ fnd = 0

\* an iteration of play() with time left and no disarm active gets a press:
\* dig() is called
DigIter ==
    /\ pc = "play" /\ ~bomb_disarm_active
    /\ tlm - (stmAge \div 1000) > 0
    /\ PressAccepted

\* C27 as stated: every iteration of play() that digs goes on to the clear
\* check, which either clears the level or lets the loop continue.
C27_ClearCheckAfterDig ==
    [][ DigIter => (lv' = lv + 1 \/ pc' = "play") ]_vars

\* C27: an iteration of play() that digs and leaves the health above 0 goes
\* on to the clear check in the same iteration: with the treasures found at
\* least the number needed the level is cleared there and then, otherwise
\* the loop continues.  A dig that takes the health to 0 makes the state OVER
\* and leaves the loop before the check, with fewer treasures found than the
\* level needs and the level and the score as they were.
C27_ClearCheckUnlessDead ==
    [][ DigIter =>
          IF hp' <= 0
          THEN /\ st' = "OVER" /\ pc' = "dispatch"
               /\ fnd' < LVL[lv][5] /\ lv' = lv /\ sc' = sc
          ELSE IF fnd' >= LVL[lv][5]
               THEN lv' = lv + 1 /\ pc' = "dispatch" /\ sc' >= sc + 100
               ELSE lv' = lv /\ pc' = "play" /\ st' = "PLAY" ]_vars

\* the dig of the second treasure of level 2 cleared the level
C27_Witness ==
    /\ ev = "clear" /\ pc = "dispatch" /\ st = "PLAY" /\ lv = 3
    /\ fnd = 2 /\ Cardinality({p \in DOMAIN rev : rev[p]}) >= 2

\* the steps that are a call of get_delta(): the lines and the clock stand
\* still and the call is recorded
IsGetDeltaCall ==
    /\ pinA' = pinA /\ pinB' = pinB /\ sinceChange' = sinceChange
    /\ encOp' = "get_delta"

\* C28: get_delta() returns the accumulated delta and sets it to 0, leaving
\* the detent position and the raw count; called again with no update() (or
\* reset) since the previous get_delta(), it returns 0.
C28_ReadAndClear ==
    [][ IsGetDeltaCall =>
          /\ encRet' = delta_accum /\ delta_accum' = 0
          /\ position' = position /\ position_raw' = position_raw
          /\ (encOp = "get_delta" => encRet' = 0) ]_vars

\* get_delta() has just returned a detent change and cleared it
C28_Witness ==
    /\ encOp = "get_delta" /\ encRet /= 0 /\ delta_accum = 0
    /\ position /= resetPos /\ deltaReturned = encRet

\* C29: an update() that accepts an A transition (A differs from the stored
\* level and the debounce interval has elapsed) changes the raw count by
\* exactly one step: +1 on a falling A with B high, -1 on a falling A with B
\* low, -1 on a rising A with B high, +1 on a rising A with B low; an
\* update() that sees A unchanged leaves the raw count.
C29_EdgeTable ==
    [][ IsUpdateCall =>
          /\ (pinA /= last_a /\ sinceChange >= debounce_ms) =>
                position_raw' - position_raw =
                  IF ~pinA THEN (IF pinB THEN 1 ELSE -1)
                           ELSE (IF pinB THEN -1 ELSE 1)
          /\ (pinA = last_a) => position_raw' = position_raw ]_vars

\* a rising A with B high was accepted and the raw count stands at -1
C29_Witness ==
    /\ encOp = "update_accepted" /\ last_a /\ last_b /\ pinA /\ pinB
    /\ position_raw = -1 /\ sinceChange = 0

\* C31: every grid generation, on entering a level and on a time-out
\* restart, leaves the health at the selected difficulty's starting health,
\* whatever it was before: health lost in a level reaches neither the next
\* level nor the restarted one.
C31_GenerationRestoresHealth ==
    ev \in {"play_enter", "timeout_restart"} =>
      /\ hp = CFG[df + 1].hp
      /\ lv \in 1..9 /\ st = "PLAY" /\ pc = "play"

\* level 1 of a medium game was restarted by a time-out, which took a point
\* before the grid was generated: the health is 4 again
C31_Witness ==
    /\ ev = "timeout_restart" /\ df = 1 /\ lv = 1 /\ timeouts = 1 /\ hp = 4

\* C32: digging an unrevealed bomb cell with no disarm opportunity available
\* marks that cell (and no other) revealed, lowers the health by exactly 1,
\* leaves the score and the treasures found and activates no disarm; if the
\* health is then 0 the state becomes OVER in that iteration with the level
\* not cleared, otherwise the loop continues in the same level.
C32_DigBomb ==
    [][ (DigsAt("B") /\ ~shake_event_available) =>
          /\ rev' = [rev EXCEPT ![pos'] = TRUE]
          /\ hp' = hp - 1 /\ sc' = sc /\ fnd' = fnd
          /\ ~bomb_disarm_active' /\ ~shake_event_available'
          /\ lv' = lv
          /\ IF hp' = 0 THEN st' = "OVER" /\ pc' = "dispatch"
                         ELSE st' = "PLAY" /\ pc' = "play" ]_vars

\* on hard the second bomb dug in level 2 ended the game
C32_Witness ==
    /\ ev = "dig_over" /\ st = "OVER" /\ hp = 0 /\ df = 2 /\ lv = 2
    /\ rev[pos] /\ grd[pos] = "B"
    /\ Cardinality({p \in DOMAIN rev : rev[p] /\ grd[p] = "B"}) = 2

C34_DisarmActive ==
    /\ bomb_disarm_active =>
         /\ st = "PLAY" /\ pc = "play"
         /\ df = 0 /\ ~shake_event_available
    /\ pc /= "play" => ~bomb_disarm_active
    /\ st \in {"OVER", "LV10", "WIN", "MENU"} => ~bomb_disarm_active

\* in level 2 a disarm is waiting for the shake, its countdown running
C34_Witness ==
    /\ bomb_disarm_active /\ ev = "disarm_wait" /\ st = "PLAY" /\ df = 0
    /\ ~shake_event_available /\ shakeAge < SHAKE_DURATION_MS /\ lv = 2

\* C35: with no rotation and no press during PLAY and the clock advancing,
\* the level time-outs deplete health and the controller reaches OVER, on
\* every difficulty.
C35_IdleReachesOver == (pc = "play") ~> (st = "OVER")

\* C36: a disarm that is active becomes inactive again when the clock
\* advances and play() keeps iterating (scope "broad", where the clock is
\* free), and the iteration that finds the disarm duration elapsed ends it.
C36_DisarmEnds ==
    /\ (scope = "broad" /\ bomb_disarm_active) ~> ~bomb_disarm_active
    /\ [][ (PlayDisarmIter /\ shakeAge >= SHAKE_DURATION_MS)
             => ~bomb_disarm_active' ]_vars

C36_Witness ==
    /\ scope = "broad" /\ ev = "disarm_failed" /\ ~bomb_disarm_active
    /\ shakeAge >= SHAKE_DURATION_MS /\ st = "PLAY" /\ hp = 5

\* C37: every visit to LV10 ends in WIN or OVER when the clock advances and
\* lv10() keeps iterating.  A visit starts with final-level health h10; an
\* iteration that evaluates no press, or a right one, leaves it; a wrong
\* press takes one point, and the visit goes on only while a point is left:
\* at most h10 presses are evaluated in a visit.
Lv10Evaluates == pc = "lv10" /\ ev' \in {"lv10_right", "lv10_again", "lv10_over"}

C37_FinalLevelEnds ==
    /\ (pc = "lv10") ~> (st \in {"WIN", "OVER"})
    /\ [](ev = "lv10_enter" => (pc = "lv10" /\ fhp = CFG[df + 1].h10))
    /\ [][ Lv10Evaluates =>
             /\ fhp \in 1..CFG[df + 1].h10
             /\ fhp' = IF ev' = "lv10_right" THEN fhp ELSE fhp - 1
             /\ pc' = "lv10" <=> (ev' = "lv10_again" /\ fhp' >= 1)
             /\ pc' /= "lv10" => st' \in {"WIN", "OVER"} ]_vars
    /\ [][ (pc = "lv10" /\ ~Lv10Evaluates) => fhp' = fhp ]_vars

C37_Witness ==
    /\ ev = "lv10_over" /\ st = "OVER" /\ fhp = 0 /\ df = 0 /\ lv = 10

\* C38: the step that starts a disarm and every disarm iteration (waiting,
\* success, failure) leave the level start time and the level time limit as
\* they are; a clock step during a disarm advances the level countdown too;
\* and when a disarm resolves with the level time up, the next iteration of
\* play() is the time-out.
DisarmStarts == pc = "play" /\ ~bomb_disarm_active /\ bomb_disarm_active'

C38_DisarmKeepsCountdown ==
    [][ /\ (DisarmStarts \/ PlayDisarmIter) => (stmAge' = stmAge /\ tlm' = tlm)
        /\ (bomb_disarm_active /\ ev' = "tick") =>
              /\ stmAge' = Min(stmAge + GameTickMs, StmHorizon)
              /\ tlm' = tlm
        /\ ( /\ ev \in {"disarmed", "disarm_failed"} /\ pc = "play"
             /\ Remaining(tlm) = 0 /\ ev' /= "tick" )
              => ev' \in {"timeout_restart", "timeout_over"} ]_vars

C38_Witness ==
    /\ ev = "disarm_failed" /\ pc = "play" /\ ~bomb_disarm_active
    /\ Remaining(tlm) = 0 /\ stmAge = 1000 * tlm /\ hp = 5 /\ armedGen = 1

\* C39: an iteration of play() that finds 0 whole seconds remaining, no
\* disarm being active, is the time-out: the button levels, the debounce
\* stamps, the score and the level are as before; nothing is dug (the grid
\* is untouched, or freshly generated with the cursor at the origin) and
\* the level is not cleared.  A level is cleared with at least 1 second
\* remaining, and its bonus is at least 102.
C39_TimeoutOnly ==
    [][ /\ ( /\ pc = "play" /\ ~bomb_disarm_active
             /\ Remaining(tlm) = 0 /\ ev' /= "tick" )
              => /\ ev' \in {"timeout_restart", "timeout_over"}
                 /\ UNCHANGED <<ebl, bl, lbtAge, leAge, sc, lv>>
                 /\ st' \in {"PLAY", "OVER"}
                 /\ ~bomb_disarm_active'
                 /\ IF ev' = "timeout_over"
                    THEN UNCHANGED <<grd, rev, pos, fnd>>
                    ELSE /\ pos' = <<0, 0>> /\ fnd' = 0
                         /\ \A p \in DOMAIN rev' : ~rev'[p]
        /\ ev' = "clear"
              => /\ Remaining(tlm) >= 1
                 /\ ClearBonus(Remaining(tlm)) >= 102
                 /\ sc' >= sc + ClearBonus(Remaining(tlm)) ]_vars

C39_Witness ==
    /\ ev = "timeout_restart" /\ df = 0 /\ lv = 1 /\ sc = DISARM_SCORE
    /\ pos = <<0, 0>> /\ fnd = 0 /\ stmAge = 0 /\ ~ebl

\* C40: a dig on a cell that is already revealed, the bomb cell of an earlier
\* disarm included, changes nothing: health, score, treasures found, the
\* revealed cells, both disarm flags and the disarm start time, level and
\* state are as before.  While play() runs on one generated grid a revealed
\* cell stays revealed.
DigsRevealed == DigIter /\ rev[pos']

C40_RevealedDigIsNoOp ==
    [][ /\ DigsRevealed =>
              /\ UNCHANGED <<hp, sc, fnd, rev, grd, lv, st, pc>>
              /\ UNCHANGED <<bomb_disarm_active, shake_event_available, shakeAge>>
              /\ ev' = "dig_revealed"
        /\ (pc = "play" /\ ev' /= "timeout_restart") =>
              /\ DOMAIN rev' = DOMAIN rev
              /\ \A p \in DOMAIN rev : rev[p] => rev'[p] ]_vars

C40_Witness ==
    /\ ev = "dig_revealed" /\ rev[pos] /\ grd[pos] = "B"
    /\ armedGen = 1 /\ ~bomb_disarm_active /\ ~shake_event_available
    /\ hp = 6 /\ sc = DISARM_SCORE

====
